---- MODULE Spec2Model ----
(***************************************************************************)
(* Wiki generation task scheduler of DeepV-Ki: api/task_queue.py           *)
(* (TaskQueueManager), the task and project tables of api/gitlab_db.py     *)
(* and the page loop of api/wiki_generator.py.                             *)
(*                                                                         *)
(* The durable store (SQLite) is the pair tasks/projects: it survives a    *)
(* crash.  Everything else is memory of the process: the manager's         *)
(* running flag and active_tasks dict, the polling loop threads, the       *)
(* pipeline threads and the create_task calls in flight.                   *)
(*                                                                         *)
(* Every store call is one atomic step; steps of different threads         *)
(* interleave freely.  An external stage call has no effect on the shared  *)
(* state, so its outcome (returns / raises) is chosen in the step that     *)
(* performs the next store write of the thread.                            *)
(***************************************************************************)
EXTENDS Integers, Sequences, FiniteSets, TLC

----------------------------------------------------------------------------
(* Bounds of the model *)

ConcTasks == 2
RestartTasks == 1
ConcPages == 1
SerialTasks == 2
SerialPages == 1
PipelineTasks == 2
FaultTasks == 2
FaultPages == 1
StoreTasks == 1
ClockTasks == 2
ClockPages == 1
MaxTime == 2
TicksPerDay == 2
QueueTasks == 2
QueuePages == 1
CreateTasks == 2
StopTasks == 1
PageTasks == 1
ManyPages == 27
StopPages == 1
MaxPages == 2
MaxLimit == 2
DefaultLimit == 1
NumCallers == 2
NumLoops == 2
NumThreads == 2

Keys == {"gitlab:acme/widgets", "github:acme/gears"}
Callers == 1..NumCallers
LoopIds == 1..NumLoops
ThreadIds == 1..NumThreads

----------------------------------------------------------------------------
(* Values *)

NoTask == 0
NullTime == 0
SubmitError == 0 - 1
NoCount == 0 - 1
NullResult == << >>
TerminalStatuses == {"completed", "failed"}
ActiveStatuses == {"queued", "processing"}
Statuses == ActiveStatuses \cup TerminalStatuses
InterruptedMsg == "interrupted by restart"
PagePlaceholder == "placeholder"
PageContent == "content"

VARIABLES
    tasks,                  \* wiki_generation_tasks: sequence of rows, task_id = index
    projects,               \* wiki_projects: project_key -> row (status "absent" = no row)
    running,                \* TaskQueueManager.running
    active_tasks,           \* keys of TaskQueueManager.active_tasks
    max_concurrent_tasks,   \* TaskQueueManager.max_concurrent_tasks
    loop,                   \* polling loop threads (_worker_loop)
    thr,                    \* pipeline threads (_process_task)
    call,                   \* create_task calls
    phase,                  \* process lifecycle: down, swept, up, stopping (stop() was
                            \* called), stopped (stop() returned); reswept when the
                            \* sweep was called again with no call in between
    cleaned_count,          \* value returned by the last cleanup_interrupted_tasks
    now,                    \* the store's CURRENT_TIMESTAMP
    env                     \* environment: callers (create_task calls that may overlap),
                            \* flaky (generate_page_content may raise),
                            \* keys (subjects submitted), pages (page counts a structure may have),
                            \* tasks (most submissions accepted)

vars == << tasks, projects, running, active_tasks, max_concurrent_tasks,
           loop, thr, call, phase, cleaned_count, now, env >>

----------------------------------------------------------------------------
(* Rows *)

AbsentProject ==
    [status |-> "absent", current_task_id |-> NoTask, generation_count |-> 0,
     pages_count |-> NoCount, progress |-> 0]

NewProject ==
    [status |-> "not_generated", current_task_id |-> NoTask, generation_count |-> 0,
     pages_count |-> NoCount, progress |-> 0]

\* raised: the pages whose generate_page_content raised; solo: no create_task call was
\* in flight when the thread made its first write; lost: the project writes of the run
\* that the store refused
IdleThread == [pc |-> "idle", task |-> NoTask, n |-> 0, i |-> 0, pages |-> << >>,
               raised |-> {}, solo |-> FALSE, lost |-> {}]
OffLoop == [pc |-> "off", task |-> NoTask]
IdleCall == [pc |-> "idle", key |-> "none", pstatus |-> "none", ptask |-> NoTask,
             seen |-> {}, made |-> NoTask, pre |-> AbsentProject]

TaskIds == DOMAIN tasks

----------------------------------------------------------------------------
(* Store operations (api/gitlab_db.py) as functions of the tables *)

\* the insert with an empty string in error_message
create_wiki_generation_task_EmptyError(tbl, project_key, time) ==
    Append(tbl, [project_key |-> project_key, status |-> "queued", progress |-> 0,
                 result |-> NullResult, error_message |-> "",
                 created_at |-> time, started_at |-> NullTime, completed_at |-> NullTime])

\* INSERT INTO wiki_generation_tasks ... 'queued', 0
create_wiki_generation_task(tbl, project_key, time) ==
    Append(tbl, [project_key |-> project_key, status |-> "queued", progress |-> 0,
                 result |-> NullResult, error_message |-> "NULL",
                 created_at |-> time, started_at |-> NullTime, completed_at |-> NullTime])

\* UPDATE wiki_generation_tasks SET status, [progress], [result], [error_message]
\* WHERE task_id = ?   (progress < 0, result NullResult, error "NULL" mean "not given")
update_task_status(tbl, task_id, status, progress, result, error_message, time) ==
    IF task_id \in DOMAIN tbl
    THEN [tbl EXCEPT ![task_id] =
            [@ EXCEPT !.status = status,
                      !.progress = IF progress >= 0 THEN progress ELSE @,
                      !.result = IF result # NullResult THEN result ELSE @,
                      !.error_message = IF error_message # "NULL" THEN error_message ELSE @,
                      !.started_at = IF status = "processing" /\ progress = 0 THEN time ELSE @,
                      !.completed_at = IF ~(status = "processing" /\ progress = 0)
                                          /\ status \in TerminalStatuses THEN time ELSE @]]
    ELSE tbl

\* SELECT * WHERE status = 'queued' ORDER BY created_at ASC LIMIT 1
QueuedIds(tbl) == {t \in DOMAIN tbl : tbl[t].status = "queued"}

\* the query with ORDER BY created_at DESC
get_queued_tasks_Newest(tbl) ==
    {t \in QueuedIds(tbl) : \A u \in QueuedIds(tbl) : tbl[t].created_at >= tbl[u].created_at}

\* the rows the query may return first: empty when nothing is queued; rows created at
\* the same CURRENT_TIMESTAMP come in an order SQL leaves open
get_queued_tasks(tbl) ==
    {t \in QueuedIds(tbl) : \A u \in QueuedIds(tbl) : tbl[t].created_at <= tbl[u].created_at}

\* get_queue_status: SELECT COUNT(*) ... WHERE status = 'processing'
processing_count(tbl) == Cardinality({t \in DOMAIN tbl : tbl[t].status = "processing"})

\* get_queue_status: SELECT COUNT(*) ... WHERE status = 'queued' AND created_at < ?
queued_before(tbl, created_at) ==
    Cardinality({t \in QueuedIds(tbl) : tbl[t].created_at < created_at})

\* the position computed without the tasks being processed
get_queue_status_NoProcessing(tbl, task_id) ==
    IF task_id \notin DOMAIN tbl THEN 0
    ELSE IF tbl[task_id].status = "processing" THEN 0 - 1
    ELSE IF tbl[task_id].status = "queued"
         THEN queued_before(tbl, tbl[task_id].created_at) + 1
    ELSE 0

\* get_queue_status: the position reported for one requested task id
get_queue_status(tbl, task_id) ==
    IF task_id \notin DOMAIN tbl THEN 0
    ELSE IF tbl[task_id].status = "processing" THEN 0 - 1
    ELSE IF tbl[task_id].status = "queued"
         THEN processing_count(tbl) + queued_before(tbl, tbl[task_id].created_at) + 1
    ELSE 0

\* the sweep's SELECT taking every task that is not completed
InterruptedIds_NotCompleted(tbl) == {t \in DOMAIN tbl : tbl[t].status # "completed"}

InterruptedIds(tbl) == {t \in DOMAIN tbl : tbl[t].status \in ActiveStatuses}

\* the task half without WHERE status IN ('queued', 'processing')
cleanup_tasks_NoFilter(tbl, time) ==
    [t \in DOMAIN tbl |->
        [tbl[t] EXCEPT !.status = "failed", !.progress = 0,
                       !.error_message = InterruptedMsg, !.completed_at = time]]

\* cleanup_interrupted_tasks: the task half
cleanup_tasks(tbl, time) ==
    [t \in DOMAIN tbl |->
        IF tbl[t].status \in ActiveStatuses
        THEN [tbl[t] EXCEPT !.status = "failed", !.progress = 0,
                            !.error_message = InterruptedMsg, !.completed_at = time]
        ELSE tbl[t]]

\* the project half with current_task_id left in place
cleanup_projects_KeepLink(tbl, prj) ==
    [k \in Keys |->
        IF /\ \E t \in InterruptedIds(tbl) : tbl[t].project_key = k
           /\ prj[k].status \in {"generating", "queued"}
        THEN [prj[k] EXCEPT !.status = "failed"]
        ELSE prj[k]]

\* cleanup_interrupted_tasks: the project half
cleanup_projects(tbl, prj) ==
    [k \in Keys |->
        IF /\ \E t \in InterruptedIds(tbl) : tbl[t].project_key = k
           /\ prj[k].status \in {"generating", "queued"}
        THEN [prj[k] EXCEPT !.status = "failed", !.current_task_id = NoTask]
        ELSE prj[k]]

\* update_wiki_project_status without generation_count = generation_count + 1
update_wiki_project_status_NoCount(prj, project_key, status, task_id) ==
    IF prj[project_key].status = "absent" THEN prj
    ELSE [prj EXCEPT ![project_key] =
            IF status = "generating"
            THEN [@ EXCEPT !.status = status, !.current_task_id = task_id]
            ELSE [@ EXCEPT !.status = status, !.current_task_id = NoTask]]

\* update_wiki_project_status
update_wiki_project_status(prj, project_key, status, task_id) ==
    IF prj[project_key].status = "absent" THEN prj
    ELSE [prj EXCEPT ![project_key] =
            IF status = "generating"
            THEN [@ EXCEPT !.status = status, !.current_task_id = task_id]
            ELSE IF status = "generated"
            THEN [@ EXCEPT !.status = status, !.current_task_id = NoTask,
                           !.generation_count = @ + 1]
            ELSE [@ EXCEPT !.status = status, !.current_task_id = NoTask]]

\* save_wiki_project_result
save_wiki_project_result(prj, project_key, pages) ==
    IF prj[project_key].status = "absent" THEN prj
    ELSE [prj EXCEPT ![project_key] =
            [@ EXCEPT !.pages_count = Len(pages), !.progress = 100]]

\* the UPDATE wiki_projects SET progress = ? of update_wiki_progress
mirror_progress(prj, project_key, progress_pct) ==
    IF prj[project_key].status = "absent" THEN prj
    ELSE [prj EXCEPT ![project_key] = [@ EXCEPT !.progress = progress_pct]]

\* the page progress counted downwards from the stage 4 checkpoint
page_progress_Down(i, n) == 70 - ((25 * i) \div n)

\* datetime.now().strftime('%Y-%m-%d'): the calendar day of a time
DayOf(time) == time \div TicksPerDay

\* progress_pct = 70 + int((25 * i) / len(pages_structure))
page_progress(i, n) == 70 + ((25 * i) \div n)

----------------------------------------------------------------------------
(* Initial state: empty store, process not started *)

InitCommon ==
    /\ tasks = << >>
    /\ projects = [k \in Keys |-> AbsentProject]
    /\ running = FALSE
    /\ active_tasks = {}
    /\ loop = [l \in LoopIds |-> OffLoop]
    /\ thr = [h \in ThreadIds |-> IdleThread]
    /\ call = [c \in Callers |-> IdleCall]
    /\ phase = "down"
    /\ cleaned_count = 0
    /\ now = 1

\* one TaskQueueManager with any configured limit, stopped and restarted while in use
Init ==
    /\ InitCommon
    /\ max_concurrent_tasks \in 1..MaxLimit
    /\ env = [callers |-> 1, flaky |-> FALSE, keys |-> {"gitlab:acme/widgets"},
              pages |-> 0..ConcPages, tasks |-> RestartTasks]

\* create_task called from several threads at once
InitCallers ==
    /\ InitCommon
    /\ max_concurrent_tasks = DefaultLimit
    /\ env = [callers |-> NumCallers, flaky |-> FALSE, keys |-> {"gitlab:acme/widgets"},
              pages |-> 0..ConcPages, tasks |-> ConcTasks]

\* the shipped configuration: TaskQueueManager() with its default limit, create_task
\* called from the single event-loop thread
InitSerial ==
    /\ InitCommon
    /\ max_concurrent_tasks = DefaultLimit
    /\ env = [callers |-> 1, flaky |-> FALSE, keys |-> Keys, pages |-> 0..SerialPages,
              tasks |-> SerialTasks]

\* the shipped configuration with submissions spread over time, every wiki structure
\* of the same size
InitClock ==
    /\ InitCommon
    /\ max_concurrent_tasks = DefaultLimit
    /\ env = [callers |-> 1, flaky |-> FALSE, keys |-> Keys, pages |-> {ClockPages},
              tasks |-> ClockTasks]

\* the shipped configuration on a store whose writes may fail
InitFaults ==
    /\ InitCommon
    /\ max_concurrent_tasks = DefaultLimit
    /\ env = [callers |-> 1, flaky |-> FALSE, keys |-> {"gitlab:acme/widgets"},
              pages |-> 0..FaultPages, tasks |-> FaultTasks]

\* one subject, one submission at a time, structures of up to MaxPages pages
InitPipeline ==
    /\ InitCommon
    /\ max_concurrent_tasks = DefaultLimit
    /\ env = [callers |-> 1, flaky |-> TRUE, keys |-> {"gitlab:acme/widgets"},
              pages |-> 0..MaxPages, tasks |-> PipelineTasks]

----------------------------------------------------------------------------
(* Lifecycle: init_task_queue, shutdown_task_queue, process death *)

Volatile ==
    /\ running' = FALSE
    /\ active_tasks' = {}
    /\ loop' = [l \in LoopIds |-> OffLoop]
    /\ thr' = [h \in ThreadIds |-> IdleThread]
    /\ call' = [c \in Callers |-> IdleCall]

\* init_task_queue step 1: db.cleanup_interrupted_tasks() inside try/except
Sweep ==
    /\ phase = "down"
    /\ \/ /\ InterruptedIds(tasks) = {}
          /\ cleaned_count' = 0
          /\ phase' = "swept"
          /\ UNCHANGED << tasks, projects >>
       \/ /\ InterruptedIds(tasks) # {}
          /\ tasks' = cleanup_tasks(tasks, now)
          /\ projects' = cleanup_projects(tasks, projects)
          /\ cleaned_count' = Cardinality(InterruptedIds(tasks))
          /\ phase' = "swept"
    /\ UNCHANGED << running, active_tasks, max_concurrent_tasks, loop, thr, call, now, env >>

\* init_task_queue step 1 when the store raises: logged, 0 returned, nothing changed
SweepFails ==
    /\ phase = "down"
    /\ cleaned_count' = 0
    /\ phase' = "swept"
    /\ UNCHANGED << tasks, projects, running, active_tasks, max_concurrent_tasks, loop, thr,
                    call, now, env >>

\* init_task_queue step 2: manager.start() on the fresh manager
InitStart ==
    /\ phase = "swept"
    /\ running' = TRUE
    /\ loop' = [loop EXCEPT ![1] = [pc |-> "top", task |-> NoTask]]
    /\ phase' = "up"
    /\ cleaned_count' = 0
    /\ UNCHANGED << tasks, projects, active_tasks, max_concurrent_tasks, thr, call, now, env >>

\* TaskQueueManager.stop (from shutdown_task_queue): running = False, then join
Stop ==
    /\ phase = "up"
    /\ running' = FALSE
    /\ phase' = "stopping"
    /\ UNCHANGED << tasks, projects, active_tasks, max_concurrent_tasks, loop, thr, call,
                    cleaned_count, now, env >>

\* stop() returns: worker_thread.join(timeout=10) has found the loop thread ended, or
\* has timed out on a loop that start() set running again
StopReturn ==
    /\ phase = "stopping"
    /\ running \/ \A l \in LoopIds : loop[l].pc = "off"
    /\ phase' = "stopped"
    /\ UNCHANGED << tasks, projects, running, active_tasks, max_concurrent_tasks, loop, thr,
                    call, cleaned_count, now, env >>

\* the process is killed at an arbitrary point: memory is lost, the store stays
Crash ==
    /\ phase # "down"
    /\ Volatile
    /\ phase' = "down"
    /\ UNCHANGED << tasks, projects, max_concurrent_tasks, cleaned_count, now, env >>

----------------------------------------------------------------------------
(* TaskQueueManager.create_task, one store statement per step *)

InFlight(c) == call[c].pc # "idle"
MayInsert(c) == call[c].pc \in {"insert", "reselect", "task"}
ActiveOf(k) == {t \in TaskIds : tasks[t].project_key = k /\ tasks[t].status \in ActiveStatuses}
FreeLoops == {l \in LoopIds : loop[l].pc = "off"}
FreeThreads == {h \in ThreadIds : thr[h].pc = "idle"}

\* the call starts: get_or_create_wiki_project, SELECT * FROM wiki_projects
SubmitSelect(c, k) ==
    /\ phase \in {"up", "stopping"}
    /\ ~InFlight(c)
    /\ c <= env.callers
    /\ k \in env.keys
    /\ Len(tasks) + Cardinality({d \in Callers : MayInsert(d)}) < env.tasks
    /\ call' = [call EXCEPT ![c] =
            IF projects[k].status = "absent"
            THEN [IdleCall EXCEPT !.pc = "insert", !.key = k, !.seen = ActiveOf(k)]
            ELSE [IdleCall EXCEPT !.pc = "task", !.key = k, !.seen = ActiveOf(k),
                                  !.pre = projects[k],
                                  !.pstatus = projects[k].status,
                                  !.ptask = projects[k].current_task_id]]
    /\ UNCHANGED << tasks, projects, running, active_tasks, max_concurrent_tasks, loop, thr,
                    phase, cleaned_count, now, env >>

\* the insert as INSERT OR REPLACE
SubmitInsert_Replace(c) ==
    /\ call[c].pc = "insert"
    /\ projects' = [projects EXCEPT ![call[c].key] = NewProject]
    /\ call' = [call EXCEPT ![c].pc = "reselect"]
    /\ UNCHANGED << tasks, running, active_tasks, max_concurrent_tasks, loop, thr,
                    phase, cleaned_count, now, env >>

\* get_or_create_wiki_project: INSERT INTO wiki_projects (project_key is the primary key)
SubmitInsert(c) ==
    /\ call[c].pc = "insert"
    /\ IF projects[call[c].key].status # "absent"
       THEN /\ call' = [call EXCEPT ![c] = IdleCall]
            /\ UNCHANGED projects
       ELSE /\ projects' = [projects EXCEPT ![call[c].key] = NewProject]
            /\ call' = [call EXCEPT ![c].pc = "reselect"]
    /\ UNCHANGED << tasks, running, active_tasks, max_concurrent_tasks, loop, thr,
                    phase, cleaned_count, now, env >>

\* get_or_create_wiki_project: the SELECT after the commit
SubmitReselect(c) ==
    /\ call[c].pc = "reselect"
    /\ call' = [call EXCEPT ![c].pc = "task",
                            ![c].pstatus = projects[call[c].key].status,
                            ![c].ptask = projects[call[c].key].current_task_id]
    /\ UNCHANGED << tasks, projects, running, active_tasks, max_concurrent_tasks, loop, thr,
                    phase, cleaned_count, now, env >>

\* the value create_task returns on the step that ends the call: current_task_id of the
\* fetched row (line 112), the new task_id (line 147), or the raised exception
ReturnValue(c) ==
    IF call[c].pc = "task" /\ call[c].pstatus = "generating" THEN call[c].ptask
    ELSE IF call[c].pc \in {"start", "spawn"} THEN call[c].made
    ELSE SubmitError

Returns(c) == InFlight(c) /\ call'[c].pc = "idle" /\ phase' # "down"

\* create_task without the check of project['status']
SubmitTask_NoCheck(c) ==
    /\ call[c].pc = "task"
    /\ tasks' = create_wiki_generation_task(tasks, call[c].key, now)
    /\ call' = [call EXCEPT ![c].pc = "trans", ![c].made = Len(tasks) + 1]
    /\ UNCHANGED << projects, running, active_tasks, max_concurrent_tasks, loop, thr,
                    phase, cleaned_count, now, env >>

\* steps 2-4: the generating check on the fetched row, then the task insert
SubmitTask(c) ==
    /\ call[c].pc = "task"
    /\ IF call[c].pstatus = "generating"
       THEN /\ call' = [call EXCEPT ![c] = IdleCall]
            /\ UNCHANGED tasks
       ELSE /\ tasks' = create_wiki_generation_task(tasks, call[c].key, now)
            /\ call' = [call EXCEPT ![c].pc = "trans", ![c].made = Len(tasks) + 1]
    /\ UNCHANGED << projects, running, active_tasks, max_concurrent_tasks, loop, thr,
                    phase, cleaned_count, now, env >>

\* step 4 when create_wiki_generation_task returns False: raise Exception
SubmitTaskFails(c) ==
    /\ call[c].pc = "task"
    /\ call[c].pstatus # "generating"
    /\ call' = [call EXCEPT ![c] = IdleCall]
    /\ UNCHANGED << tasks, projects, running, active_tasks, max_concurrent_tasks, loop, thr,
                    phase, cleaned_count, now, env >>

\* step 5 passing the current_task_id of the fetched row instead of the new task_id
SubmitTrans_Stale(c) ==
    /\ call[c].pc = "trans"
    /\ projects' = update_wiki_project_status(projects, call[c].key, "generating", call[c].ptask)
    /\ call' = [call EXCEPT ![c].pc = "start"]
    /\ UNCHANGED << tasks, running, active_tasks, max_concurrent_tasks, loop, thr,
                    phase, cleaned_count, now, env >>

\* step 5: update_wiki_project_status(project_key, 'generating', task_id)
SubmitTrans(c) ==
    /\ call[c].pc = "trans"
    /\ projects' = update_wiki_project_status(projects, call[c].key, "generating", call[c].made)
    /\ call' = [call EXCEPT ![c].pc = "start"]
    /\ UNCHANGED << tasks, running, active_tasks, max_concurrent_tasks, loop, thr,
                    phase, cleaned_count, now, env >>

\* step 6: if not self.running: self.start() -- the reads of running
SubmitStart(c) ==
    /\ call[c].pc = "start"
    /\ IF running
       THEN call' = [call EXCEPT ![c] = IdleCall]
       ELSE /\ Cardinality({d \in Callers : call[d].pc = "spawn"}) < Cardinality(FreeLoops)
            /\ call' = [call EXCEPT ![c].pc = "spawn"]
    /\ UNCHANGED << tasks, projects, running, active_tasks, max_concurrent_tasks, loop, thr,
                    phase, cleaned_count, now, env >>

\* start(): self.running = True; Thread(target=self._worker_loop).start()
SubmitSpawn(c) ==
    /\ call[c].pc = "spawn"
    /\ FreeLoops # {}
    /\ running' = TRUE
    /\ LET l == CHOOSE f \in FreeLoops : \A g \in FreeLoops : f <= g
       IN loop' = [loop EXCEPT ![l] = [pc |-> "top", task |-> NoTask]]
    /\ call' = [call EXCEPT ![c] = IdleCall]
    /\ UNCHANGED << tasks, projects, active_tasks, max_concurrent_tasks, thr,
                    phase, cleaned_count, now, env >>

----------------------------------------------------------------------------
(* TaskQueueManager._worker_loop *)

\* while self.running: len(active_tasks) < max_concurrent_tasks, get_queued_tasks(limit=1)
LoopPoll(l) ==
    /\ loop[l].pc = "top"
    /\ IF ~running
       THEN loop' = [loop EXCEPT ![l] = OffLoop]
       ELSE /\ Cardinality(active_tasks) < max_concurrent_tasks
            /\ Cardinality({m \in LoopIds : loop[m].pc = "claim"}) < Cardinality(FreeThreads)
            /\ \E t \in get_queued_tasks(tasks) :
                  loop' = [loop EXCEPT ![l] = [pc |-> "claim", task |-> t]]
    /\ UNCHANGED << tasks, projects, running, active_tasks, max_concurrent_tasks, thr, call,
                    phase, cleaned_count, now, env >>

\* the claim recorded without a pipeline thread being started
LoopClaim_NoThread(l) ==
    /\ loop[l].pc = "claim"
    /\ FreeThreads # {}
    /\ active_tasks' = active_tasks \cup {loop[l].task}
    /\ loop' = [loop EXCEPT ![l] = [pc |-> "top", task |-> NoTask]]
    /\ UNCHANGED << tasks, projects, running, max_concurrent_tasks, thr, call,
                    phase, cleaned_count, now, env >>

\* self.active_tasks[task_id] = True; Thread(target=self._process_task).start()
LoopClaim(l) ==
    /\ loop[l].pc = "claim"
    /\ FreeThreads # {}
    /\ active_tasks' = active_tasks \cup {loop[l].task}
    /\ LET h == CHOOSE f \in FreeThreads : \A g \in FreeThreads : f <= g
       IN thr' = [thr EXCEPT ![h] = [IdleThread EXCEPT !.pc = "start", !.task = loop[l].task]]
    /\ loop' = [loop EXCEPT ![l] = [pc |-> "top", task |-> NoTask]]
    /\ UNCHANGED << tasks, projects, running, max_concurrent_tasks, call,
                    phase, cleaned_count, now, env >>

----------------------------------------------------------------------------
(* TaskQueueManager._process_task and generate_wiki *)

TaskOf(h) == thr[h].task
KeyOf(h) == tasks[thr[h].task].project_key

Checkpoint(h, progress, nextpc) ==
    /\ tasks' = update_task_status(tasks, TaskOf(h), "processing", progress, NullResult, "NULL", now)
    /\ thr' = [thr EXCEPT ![h].pc = nextpc]

\* update_task_status(status='processing', progress=0)
ProcStart(h) ==
    /\ thr[h].pc = "start"
    /\ tasks' = update_task_status(tasks, TaskOf(h), "processing", 0, NullResult, "NULL", now)
    /\ thr' = [thr EXCEPT ![h].pc = "download",
                          ![h].solo = \A c \in Callers : call[c].pc = "idle"]
    /\ UNCHANGED << projects, running, active_tasks, max_concurrent_tasks, loop, call,
                    phase, cleaned_count, now, env >>

\* stage 1 checkpoint, progress=5, then download_repo is called
ProcDownload(h) ==
    /\ thr[h].pc = "download"
    /\ Checkpoint(h, 5, "fetch")
    /\ UNCHANGED << projects, running, active_tasks, max_concurrent_tasks, loop, call,
                    phase, cleaned_count, now, env >>

\* download_repo returned; stage 2 checkpoint, progress=20, then read_all_documents
ProcExtract(h) ==
    /\ thr[h].pc = "fetch"
    /\ Checkpoint(h, 20, "extract")
    /\ UNCHANGED << projects, running, active_tasks, max_concurrent_tasks, loop, call,
                    phase, cleaned_count, now, env >>

\* stage 3 entered with its checkpoint left out
ProcEmbed_NoCheckpoint(h) ==
    /\ thr[h].pc = "extract"
    /\ thr' = [thr EXCEPT ![h].pc = "prepare"]
    /\ UNCHANGED << tasks, projects, running, active_tasks, max_concurrent_tasks, loop, call,
                    phase, cleaned_count, now, env >>

\* read_all_documents returned; stage 3 checkpoint, progress=40, then prepare_retriever
ProcEmbed(h) ==
    /\ thr[h].pc = "extract"
    /\ Checkpoint(h, 40, "prepare")
    /\ UNCHANGED << projects, running, active_tasks, max_concurrent_tasks, loop, call,
                    phase, cleaned_count, now, env >>

\* prepare_retriever returned; stage 4 checkpoint, progress=70, then generate_wiki
ProcGenerate(h) ==
    /\ thr[h].pc = "prepare"
    /\ Checkpoint(h, 70, "structure")
    /\ UNCHANGED << projects, running, active_tasks, max_concurrent_tasks, loop, call,
                    phase, cleaned_count, now, env >>

\* the callback recording one point more than it is given
update_wiki_progress_Over(h, progress_pct) ==
    /\ tasks' = update_task_status(tasks, TaskOf(h), "processing", progress_pct + 1,
                                   NullResult, "NULL", now)
    /\ projects' = mirror_progress(projects, KeyOf(h), progress_pct + 1)

\* update_wiki_progress: the task checkpoint and the copy onto the project row
update_wiki_progress(h, progress_pct) ==
    /\ tasks' = update_task_status(tasks, TaskOf(h), "processing", progress_pct,
                                   NullResult, "NULL", now)
    /\ projects' = mirror_progress(projects, KeyOf(h), progress_pct)

\* generate_wiki: generate_wiki_structure returned n pages; progress_callback(70, ...)
ProcStructure(h) ==
    /\ thr[h].pc = "structure"
    /\ \E n \in env.pages :
          thr' = [thr EXCEPT ![h].pc = "pages", ![h].n = n, ![h].i = 0]
    /\ update_wiki_progress(h, 70)
    /\ UNCHANGED << running, active_tasks, max_concurrent_tasks, loop, call,
                    phase, cleaned_count, now, env >>

\* the page loop with a raising page left out of the result
ProcPage_Drop(h) ==
    /\ thr[h].pc = "pages"
    /\ thr[h].i < thr[h].n
    /\ update_wiki_progress(h, page_progress(thr[h].i, thr[h].n))
    /\ \/ thr' = [thr EXCEPT ![h].i = @ + 1, ![h].pages = Append(@, PageContent)]
       \/ /\ env.flaky
          /\ thr' = [thr EXCEPT ![h].i = @ + 1, ![h].raised = @ \cup {thr[h].i + 1}]
    /\ UNCHANGED << running, active_tasks, max_concurrent_tasks, loop, call,
                    phase, cleaned_count, now, env >>

\* generate_wiki: page i: progress_callback(70 + int(25*i/n)), then generate_page_content;
\* an exception of the page is caught and replaced by the placeholder text
ProcPage(h) ==
    /\ thr[h].pc = "pages"
    /\ thr[h].i < thr[h].n
    /\ update_wiki_progress(h, page_progress(thr[h].i, thr[h].n))
    /\ \/ thr' = [thr EXCEPT ![h].i = @ + 1, ![h].pages = Append(@, PageContent)]
       \/ /\ env.flaky
          /\ thr' = [thr EXCEPT ![h].i = @ + 1, ![h].pages = Append(@, PagePlaceholder),
                                ![h].raised = @ \cup {thr[h].i + 1}]
    /\ UNCHANGED << running, active_tasks, max_concurrent_tasks, loop, call,
                    phase, cleaned_count, now, env >>

\* generate_wiki returned; stage 5 checkpoint, progress=95
ProcSaving(h) ==
    /\ thr[h].pc = "pages"
    /\ thr[h].i = thr[h].n
    /\ Checkpoint(h, 95, "persist")
    /\ UNCHANGED << projects, running, active_tasks, max_concurrent_tasks, loop, call,
                    phase, cleaned_count, now, env >>

\* the result saved together with the transition of the project to generated
ProcSaveResult_Generated(h) ==
    /\ thr[h].pc = "persist"
    /\ projects' = update_wiki_project_status(
                       save_wiki_project_result(projects, KeyOf(h), thr[h].pages),
                       KeyOf(h), "generated", NoTask)
    /\ thr' = [thr EXCEPT ![h].pc = "complete"]
    /\ UNCHANGED << tasks, running, active_tasks, max_concurrent_tasks, loop, call,
                    phase, cleaned_count, now, env >>

\* save_wiki_project_result returns True
ProcSaveResult(h) ==
    /\ thr[h].pc = "persist"
    /\ projects' = save_wiki_project_result(projects, KeyOf(h), thr[h].pages)
    /\ thr' = [thr EXCEPT ![h].pc = "complete"]
    /\ UNCHANGED << tasks, running, active_tasks, max_concurrent_tasks, loop, call,
                    phase, cleaned_count, now, env >>

\* save_wiki_project_result returns False: the store raised, a warning is logged
ProcSaveResultFails(h) ==
    /\ thr[h].pc = "persist"
    /\ thr' = [thr EXCEPT ![h].pc = "complete", ![h].lost = @ \cup {"result"}]
    /\ UNCHANGED << tasks, projects, running, active_tasks, max_concurrent_tasks, loop, call,
                    phase, cleaned_count, now, env >>

\* the run ends with its completed write left out
ProcComplete_NoWrite(h) ==
    /\ thr[h].pc = "complete"
    /\ thr' = [thr EXCEPT ![h].pc = "project"]
    /\ UNCHANGED << tasks, projects, running, active_tasks, max_concurrent_tasks, loop, call,
                    phase, cleaned_count, now, env >>

\* update_task_status(status='completed', progress=100, result={...})
ProcComplete(h) ==
    /\ thr[h].pc = "complete"
    /\ tasks' = update_task_status(tasks, TaskOf(h), "completed", 100, << thr[h].pages >>,
                                   "NULL", now)
    /\ thr' = [thr EXCEPT ![h].pc = "project"]
    /\ UNCHANGED << projects, running, active_tasks, max_concurrent_tasks, loop, call,
                    phase, cleaned_count, now, env >>

\* update_wiki_project_status(project_key, 'generated', last_success_date=today)
ProcProjectGenerated(h) ==
    /\ thr[h].pc = "project"
    /\ projects' = update_wiki_project_status(projects, KeyOf(h), "generated", NoTask)
    /\ thr' = [thr EXCEPT ![h].pc = "finally"]
    /\ UNCHANGED << tasks, running, active_tasks, max_concurrent_tasks, loop, call,
                    phase, cleaned_count, now, env >>

\* the refused project write handled as a failure of the run
ProcProjectGeneratedFails_Raises(h) ==
    /\ thr[h].pc = "project"
    /\ tasks' = update_task_status(tasks, TaskOf(h), "failed", 0, NullResult, "error", now)
    /\ thr' = [thr EXCEPT ![h].pc = "project_failed", ![h].lost = @ \cup {"generated"}]
    /\ UNCHANGED << projects, running, active_tasks, max_concurrent_tasks, loop, call,
                    phase, cleaned_count, now, env >>

\* the same call when the store raises: False is returned and ignored
ProcProjectGeneratedFails(h) ==
    /\ thr[h].pc = "project"
    /\ thr' = [thr EXCEPT ![h].pc = "finally", ![h].lost = @ \cup {"generated"}]
    /\ UNCHANGED << tasks, projects, running, active_tasks, max_concurrent_tasks, loop, call,
                    phase, cleaned_count, now, env >>

\* the except block writing the failure without progress=0
ProcRaise_KeepProgress(h) ==
    /\ thr[h].pc \in {"fetch", "extract", "prepare", "structure"}
    /\ tasks' = update_task_status(tasks, TaskOf(h), "failed", 0 - 1, NullResult, "error", now)
    /\ thr' = [thr EXCEPT ![h].pc = "project_failed"]
    /\ UNCHANGED << projects, running, active_tasks, max_concurrent_tasks, loop, call,
                    phase, cleaned_count, now, env >>

\* an external call raised: except Exception: update_task_status(status='failed', progress=0)
ProcRaise(h) ==
    /\ thr[h].pc \in {"fetch", "extract", "prepare", "structure"}
    /\ tasks' = update_task_status(tasks, TaskOf(h), "failed", 0, NullResult, "error", now)
    /\ thr' = [thr EXCEPT ![h].pc = "project_failed"]
    /\ UNCHANGED << projects, running, active_tasks, max_concurrent_tasks, loop, call,
                    phase, cleaned_count, now, env >>

\* the failure written on the project with current_task_id left in place
ProcProjectFailed_KeepLink(h) ==
    /\ thr[h].pc = "project_failed"
    /\ projects' = [projects EXCEPT ![KeyOf(h)].status =
                        IF @ = "absent" THEN @ ELSE "failed"]
    /\ thr' = [thr EXCEPT ![h].pc = "finally"]
    /\ UNCHANGED << tasks, running, active_tasks, max_concurrent_tasks, loop, call,
                    phase, cleaned_count, now, env >>

\* except Exception: update_wiki_project_status(project_key, 'failed')
ProcProjectFailed(h) ==
    /\ thr[h].pc = "project_failed"
    /\ projects' = update_wiki_project_status(projects, KeyOf(h), "failed", NoTask)
    /\ thr' = [thr EXCEPT ![h].pc = "finally"]
    /\ UNCHANGED << tasks, running, active_tasks, max_concurrent_tasks, loop, call,
                    phase, cleaned_count, now, env >>

\* the thread ending without the finally block
ProcFinally_Keep(h) ==
    /\ thr[h].pc = "finally"
    /\ active_tasks' = active_tasks
    /\ thr' = [thr EXCEPT ![h] = IdleThread]
    /\ UNCHANGED << tasks, projects, running, max_concurrent_tasks, loop, call,
                    phase, cleaned_count, now, env >>

\* finally: del self.active_tasks[task_id]; the thread ends
ProcFinally(h) ==
    /\ thr[h].pc = "finally"
    /\ active_tasks' = active_tasks \ {TaskOf(h)}
    /\ thr' = [thr EXCEPT ![h] = IdleThread]
    /\ UNCHANGED << tasks, projects, running, max_concurrent_tasks, loop, call,
                    phase, cleaned_count, now, env >>

----------------------------------------------------------------------------

\* the steps of create_task calls, of the polling loop and of the pipeline threads
Steps ==
    \/ \E c \in Callers, k \in Keys : SubmitSelect(c, k)
    \/ \E c \in Callers : SubmitInsert(c)
    \/ \E c \in Callers : SubmitReselect(c)
    \/ \E c \in Callers : SubmitTask(c)
    \/ \E c \in Callers : SubmitTrans(c)
    \/ \E c \in Callers : SubmitStart(c)
    \/ \E l \in LoopIds : LoopPoll(l)
    \/ \E l \in LoopIds : LoopClaim(l)
    \/ \E h \in ThreadIds : ProcStart(h)
    \/ \E h \in ThreadIds : ProcDownload(h)
    \/ \E h \in ThreadIds : ProcExtract(h)
    \/ \E h \in ThreadIds : ProcEmbed(h)
    \/ \E h \in ThreadIds : ProcGenerate(h)
    \/ \E h \in ThreadIds : ProcStructure(h)
    \/ \E h \in ThreadIds : ProcPage(h)
    \/ \E h \in ThreadIds : ProcSaving(h)
    \/ \E h \in ThreadIds : ProcSaveResult(h)
    \/ \E h \in ThreadIds : ProcComplete(h)
    \/ \E h \in ThreadIds : ProcProjectGenerated(h)
    \/ \E h \in ThreadIds : ProcRaise(h)
    \/ \E h \in ThreadIds : ProcProjectFailed(h)
    \/ \E h \in ThreadIds : ProcFinally(h)

\* process lifetimes separated by crashes: each starts with init_task_queue
NextSerial ==
    \/ Sweep
    \/ InitStart
    \/ Crash
    \/ Steps

\* one process lifetime with stop() and create_task restarting the loop
Next ==
    \/ Sweep
    \/ InitStart
    \/ Stop
    \/ \E c \in Callers : SubmitSpawn(c)
    \/ Steps

\* one process lifetime with overlapping create_task calls
NextCallers ==
    \/ Sweep
    \/ InitStart
    \/ Steps

Spec == Init /\ [][Next]_vars

SpecCallers == InitCallers /\ [][NextCallers]_vars

SpecSerial == InitSerial /\ [][NextSerial]_vars

SpecPipeline == InitPipeline /\ [][NextSerial]_vars

----------------------------------------------------------------------------
(* The store called directly: any sequence of GitLabProjectDB calls *)

\* CURRENT_TIMESTAMP moves on
Tick ==
    /\ now < MaxTime
    /\ now' = now + 1
    /\ UNCHANGED << tasks, projects, running, active_tasks, max_concurrent_tasks, loop, thr,
                    call, phase, cleaned_count, env >>

\* db.get_or_create_wiki_project followed by db.create_wiki_generation_task
StoreCreate(k) ==
    /\ k \in env.keys
    /\ Len(tasks) < env.tasks
    /\ tasks' = create_wiki_generation_task(tasks, k, now)
    /\ projects' = IF projects[k].status = "absent"
                   THEN [projects EXCEPT ![k] = NewProject] ELSE projects
    /\ phase' = "down"
    /\ UNCHANGED << running, active_tasks, max_concurrent_tasks, loop, thr, call,
                    cleaned_count, now, env >>

\* db.update_task_status(task_id, status, progress)
StoreUpdate(t, status, progress) ==
    /\ t \in TaskIds
    /\ tasks' = update_task_status(tasks, t, status, progress, NullResult, "NULL", now)
    /\ phase' = "down"
    /\ UNCHANGED << projects, running, active_tasks, max_concurrent_tasks, loop, thr, call,
                    cleaned_count, now, env >>

\* db.update_wiki_project_status(project_key, 'generating', task_id)
StoreLink(k, t) ==
    /\ k \in env.keys
    /\ t \in TaskIds
    /\ projects[k].status # "absent"
    /\ projects' = update_wiki_project_status(projects, k, "generating", t)
    /\ phase' = "down"
    /\ UNCHANGED << tasks, running, active_tasks, max_concurrent_tasks, loop, thr, call,
                    cleaned_count, now, env >>

\* db.cleanup_interrupted_tasks() called again with no other call in between
Resweep ==
    /\ phase \in {"swept", "reswept"}
    /\ phase' = "reswept"
    /\ \/ /\ InterruptedIds(tasks) = {}
          /\ cleaned_count' = 0
          /\ UNCHANGED << tasks, projects >>
       \/ /\ InterruptedIds(tasks) # {}
          /\ tasks' = cleanup_tasks(tasks, now)
          /\ projects' = cleanup_projects(tasks, projects)
          /\ cleaned_count' = Cardinality(InterruptedIds(tasks))
    /\ UNCHANGED << running, active_tasks, max_concurrent_tasks, loop, thr, call, now, env >>

\* task ids passed to the store
StoreIds == 1..StoreTasks

\* progress values passed to update_task_status
ProgressInputs == {0, 50}

InitStore ==
    /\ InitCommon
    /\ max_concurrent_tasks = DefaultLimit
    /\ env = [callers |-> 0, flaky |-> FALSE, keys |-> {"gitlab:acme/widgets"},
              pages |-> {0}, tasks |-> StoreTasks]

NextStore ==
    \/ Tick
    \/ \E k \in Keys : StoreCreate(k)
    \/ \E t \in StoreIds, st \in Statuses, pr \in ProgressInputs : StoreUpdate(t, st, pr)
    \/ \E k \in Keys, t \in StoreIds : StoreLink(k, t)
    \/ Sweep
    \/ Resweep

SpecStore == InitStore /\ [][NextStore]_vars

\* the next statement of pipeline thread h, whatever its external call did
ProcStep(h) ==
    \/ ProcStart(h)
    \/ ProcDownload(h)
    \/ ProcExtract(h)
    \/ ProcEmbed(h)
    \/ ProcGenerate(h)
    \/ ProcStructure(h)
    \/ ProcPage(h)
    \/ ProcSaving(h)
    \/ ProcSaveResult(h)
    \/ ProcComplete(h)
    \/ ProcProjectGenerated(h)
    \/ ProcRaise(h)
    \/ ProcProjectFailed(h)
    \/ ProcFinally(h)

\* one lifetime in which a started pipeline thread keeps running: each external call
\* returns or raises
SpecLive ==
    /\ InitPipeline
    /\ [][NextCallers]_vars
    /\ \A h \in ThreadIds : WF_vars(ProcStep(h))

\* one lifetime of the shipped configuration with a clock that moves
NextClock ==
    \/ Sweep
    \/ InitStart
    \/ Steps
    \/ Tick

SpecClock == InitClock /\ [][NextClock]_vars

\* the same lifetimes with store statements that fail
NextFaults ==
    \/ NextSerial
    \/ SweepFails
    \/ \E c \in Callers : SubmitTaskFails(c)
    \/ \E h \in ThreadIds : ProcSaveResultFails(h)
    \/ \E h \in ThreadIds : ProcProjectGeneratedFails(h)

SpecFaults == InitFaults /\ [][NextFaults]_vars

\* create_task called from several threads at once for any of the subjects, before the
\* polling loop has looked at the queue
InitCreate ==
    /\ InitCommon
    /\ max_concurrent_tasks = DefaultLimit
    /\ env = [callers |-> NumCallers, flaky |-> FALSE, keys |-> Keys, pages |-> {0},
              tasks |-> CreateTasks]

\* process lifetimes in which only create_task calls are scheduled
NextCreate ==
    \/ Sweep
    \/ InitStart
    \/ Crash
    \/ \E c \in Callers, k \in Keys : SubmitSelect(c, k)
    \/ \E c \in Callers : SubmitInsert(c)
    \/ \E c \in Callers : SubmitReselect(c)
    \/ \E c \in Callers : SubmitTask(c)
    \/ \E c \in Callers : SubmitTrans(c)
    \/ \E c \in Callers : SubmitStart(c)

SpecCreate == InitCreate /\ [][NextCreate]_vars

\* the shipped configuration given structures of every size up to ManyPages
InitPages ==
    /\ InitCommon
    /\ max_concurrent_tasks = DefaultLimit
    /\ env = [callers |-> 1, flaky |-> FALSE, keys |-> {"gitlab:acme/widgets"},
              pages |-> 0..ManyPages, tasks |-> PageTasks]

\* the shipped configuration shut down while in use
InitStop ==
    /\ InitCommon
    /\ max_concurrent_tasks = DefaultLimit
    /\ env = [callers |-> 1, flaky |-> FALSE, keys |-> {"gitlab:acme/widgets"},
              pages |-> {StopPages}, tasks |-> StopTasks]

\* one process lifetime up to the return of shutdown_task_queue
NextStop ==
    \/ Next
    \/ StopReturn

\* the shipped configuration with several subjects waiting in the queue
InitQueue ==
    /\ InitCommon
    /\ max_concurrent_tasks = DefaultLimit
    /\ env = [callers |-> 1, flaky |-> FALSE, keys |-> Keys, pages |-> {QueuePages},
              tasks |-> QueueTasks]

\* the next statement of polling loop l: its sleep ends, a thread it starts is started
LoopStep(l) == LoopPoll(l) \/ LoopClaim(l)

\* one lifetime in which the polling loop and every started pipeline thread keep running
SpecQueue ==
    /\ InitQueue
    /\ [][NextCallers]_vars
    /\ \A l \in LoopIds : WF_vars(LoopStep(l))
    /\ \A h \in ThreadIds : WF_vars(ProcStep(h))

\* structures of every size, the started pipeline threads kept running
SpecPages ==
    /\ InitPages
    /\ [][NextCallers]_vars
    /\ \A h \in ThreadIds : WF_vars(ProcStep(h))

\* a shutdown in which the polling loops and the started pipeline threads keep running
SpecStop ==
    /\ InitStop
    /\ [][NextStop]_vars
    /\ \A l \in LoopIds : WF_vars(LoopStep(l))
    /\ \A h \in ThreadIds : WF_vars(ProcStep(h))

----------------------------------------------------------------------------
(* Properties *)

\* C1: single-flight under concurrency -- a create_task call that starts while a task of
\* its subject is queued or processing returns that task's id and inserts no task row,
\* for every interleaving of the steps of concurrent calls.
C1_SingleFlightConcurrent ==
    [][\A c \in Callers :
          (Returns(c) /\ call[c].seen # {}) =>
              (ReturnValue(c) \in call[c].seen /\ call[c].made = NoTask)]_vars

\* C2: with create_task calls executed one at a time, at most one task per subject key
\* is queued or processing in every reachable state.
C2_OneActivePerSubject ==
    \A k \in Keys : Cardinality(ActiveOf(k)) <= 1

\* a retry: a subject with a finished task and a later task that is active
C2_Witness ==
    \E t, u \in TaskIds :
        /\ t < u
        /\ tasks[t].project_key = tasks[u].project_key
        /\ tasks[t].status \in TerminalStatuses
        /\ tasks[u].status = "processing"

C4_NoStuckGenerating ==
    phase = "swept" => \A k \in Keys : projects[k].status # "generating"

\* the step taken by cleanup_interrupted_tasks
SweepStep == phase = "down" /\ phase' = "swept"

C6_ConcurrencyLimit ==
    Cardinality({h \in ThreadIds : thr[h].pc # "idle"}) <= max_concurrent_tasks

\* C7: progress bounds -- every task's progress is within 0..100; over the writes made
\* while the task is not terminal it never decreases; it becomes 100 only on the write
\* that makes the task completed and drops to 0 only on the write that makes it failed.
C7_ProgressBounds ==
    /\ [](\A t \in TaskIds :
            /\ tasks[t].progress \in 0..100
            /\ tasks[t].progress = 100 => tasks[t].status = "completed")
    /\ [][\A t \in TaskIds :
            /\ tasks'[t].status \notin TerminalStatuses =>
                  tasks'[t].progress >= tasks[t].progress
            /\ (tasks'[t].progress = 100 /\ tasks[t].progress # 100) =>
                  (tasks'[t].status = "completed" /\ tasks[t].status # "completed")
            /\ tasks'[t].progress < tasks[t].progress =>
                  /\ tasks'[t].progress = 0
                  /\ tasks'[t].status = "failed"
                  /\ tasks[t].status # "failed"]_vars

\* a task in the middle of a two-page loop: 70 + int(25 * 1 / 2) = 82
C7_Witness ==
    \E t \in TaskIds : tasks[t].status = "processing" /\ tasks[t].progress = 82

\* the pipeline positions between the first task write and the project's final write
OnSuccessPath(h) ==
    thr[h].pc \in {"download", "fetch", "extract", "prepare", "structure", "pages",
                   "persist", "complete", "project"}

\* h runs the only task ever submitted, and that submit had returned when h began
SingleSubmit(h) == Len(tasks) = 1 /\ thr[h].pc # "idle" /\ thr[h].solo

\* C8: success scenario -- from no project row, one submit followed by a pipeline run whose
\* stages all succeed ends with the project generated, current_task_id cleared and
\* generation_count = 1, and the one task completed with progress 100 and a result; on
\* the way the project was not_generated and then generating.
C8_SuccessScenario ==
    /\ [](\A h \in ThreadIds : SingleSubmit(h) =>
            /\ OnSuccessPath(h) =>
                  /\ projects[KeyOf(h)].status = "generating"
                  /\ projects[KeyOf(h)].current_task_id = TaskOf(h)
                  /\ projects[KeyOf(h)].generation_count = 0
            /\ (thr[h].pc = "finally" /\ tasks[TaskOf(h)].status = "completed") =>
                  /\ projects[KeyOf(h)].status = "generated"
                  /\ projects[KeyOf(h)].current_task_id = NoTask
                  /\ projects[KeyOf(h)].generation_count = 1
                  /\ tasks[TaskOf(h)].progress = 100
                  /\ tasks[TaskOf(h)].result # NullResult)
    /\ [][\A k \in Keys :
            /\ (projects[k].status = "absent" /\ projects'[k].status # "absent") =>
                  projects'[k].status = "not_generated"
            /\ (projects[k].status = "not_generated"
                    /\ projects'[k].status # "not_generated"
                    /\ FreeThreads = ThreadIds) =>
                  projects'[k].status = "generating"]_vars

\* the run of the single submission has just made its last store write
C8_Witness ==
    \E h \in ThreadIds :
        /\ SingleSubmit(h)
        /\ thr[h].pc = "finally"
        /\ tasks[TaskOf(h)].status = "completed"
        /\ projects[KeyOf(h)].generation_count = 1

\* C9: failure path -- when a step of the pipeline raises, the task is written failed with
\* progress 0 and an error message; then the project is written failed with
\* current_task_id cleared, the task's write coming first; a failed task is never
\* queued or run again.
C9_FailurePath ==
    /\ [](\A h \in ThreadIds : thr[h].pc = "project_failed" =>
            /\ tasks[TaskOf(h)].status = "failed"
            /\ tasks[TaskOf(h)].progress = 0
            /\ tasks[TaskOf(h)].error_message # "NULL")
    /\ [][/\ \A h \in ThreadIds :
              /\ (thr[h].pc = "project_failed" /\ thr'[h].pc # "project_failed"
                      /\ phase' # "down") =>
                    /\ thr'[h].pc = "finally"
                    /\ tasks'[TaskOf(h)].status = "failed"
                    /\ projects'[KeyOf(h)].status = "failed"
                    /\ projects'[KeyOf(h)].current_task_id = NoTask
              /\ (thr[h].pc = "idle" /\ thr'[h].pc # "idle") =>
                    tasks[thr'[h].task].status = "queued"
          /\ \A t \in TaskIds :
              tasks[t].status = "failed" => tasks'[t].status = "failed"]_vars

\* a run that raised has just written its project failed
C9_Witness ==
    \E h \in ThreadIds :
        /\ thr[h].pc = "finally"
        /\ tasks[TaskOf(h)].status = "failed"
        /\ tasks[TaskOf(h)].error_message = "error"
        /\ projects[KeyOf(h)].status = "failed"

\* the pages stored in a completed task's result
ResultPages(t) == tasks[t].result[1]

\* C10: per-page isolation -- whatever subset of the N pages raises in content generation,
\* the task is completed with all N pages in its result, a placeholder as the content of
\* each page that raised and the generated content for the others, and the project
\* becomes generated.
C10_PageIsolation ==
    /\ [](\A h \in ThreadIds : thr[h].pc \in {"project", "finally"} =>
            (tasks[TaskOf(h)].status = "completed" =>
                /\ Len(ResultPages(TaskOf(h))) = thr[h].n
                /\ \A i \in 1..thr[h].n :
                      ResultPages(TaskOf(h))[i] =
                          IF i \in thr[h].raised THEN PagePlaceholder ELSE PageContent))
    /\ [][\A h \in ThreadIds :
            /\ (thr[h].pc = "pages" /\ phase' # "down") =>
                  thr'[h].pc \in {"pages", "persist"}
            /\ (thr[h].pc \in {"persist", "complete"} /\ phase' # "down") =>
                  thr'[h].pc \in {"persist", "complete", "project"}
            /\ (thr[h].pc = "complete" /\ thr'[h].pc = "project") =>
                  tasks'[TaskOf(h)].status = "completed"
            /\ (thr[h].pc = "project" /\ thr'[h].pc # "project" /\ phase' # "down") =>
                  /\ thr'[h].pc = "finally"
                  /\ projects'[KeyOf(h)].status = "generated"]_vars

\* a two-page run in which exactly one page raised has completed
C10_Witness ==
    \E h \in ThreadIds :
        /\ thr[h].pc = "finally"
        /\ thr[h].n = 2
        /\ Cardinality(thr[h].raised) = 1
        /\ tasks[TaskOf(h)].status = "completed"
        /\ projects[KeyOf(h)].status = "generated"

\* the step on which create_task raises because the task insert failed
InsertRaises(c) ==
    /\ call[c].pc = "task"
    /\ call[c].pstatus # "generating"
    /\ call'[c].pc = "idle"
    /\ phase' # "down"

\* C11: submission error leaves no trace -- when the task insert fails, create_task raises,
\* no task row exists for the attempt and the project row of the subject is as it was
\* before the call: none if the subject was unknown.
C11_SubmitErrorNoTrace ==
    [][\A c \in Callers : InsertRaises(c) =>
          /\ tasks' = tasks
          /\ ReturnValue(c) = SubmitError
          /\ projects'[call[c].key] = call[c].pre]_vars

\* C12: bookkeeping errors do not undo success -- after stages 1-4 succeeded, a refused
\* save of the result on the project or a refused transition to generated leaves the
\* task completed with progress 100 and a result; no such failure writes the task failed.
C12_BookkeepingErrors ==
    /\ [](\A h \in ThreadIds :
            (thr[h].lost # {} /\ thr[h].pc \in {"project", "finally"}) =>
                /\ tasks[TaskOf(h)].status = "completed"
                /\ tasks[TaskOf(h)].progress = 100
                /\ tasks[TaskOf(h)].result # NullResult)
    /\ [][\A h \in ThreadIds :
            /\ (thr[h].lost # {} /\ phase' # "down") =>
                  /\ tasks'[TaskOf(h)].status # "failed"
                  /\ thr'[h].pc # "project_failed"
            /\ (thr'[h].lost # thr[h].lost /\ phase' # "down") => tasks' = tasks]_vars

\* a run that lost both project writes has ended with its task completed
C12_Witness ==
    \E h \in ThreadIds :
        /\ thr[h].pc = "finally"
        /\ thr[h].lost = {"result", "generated"}
        /\ tasks[TaskOf(h)].status = "completed"
        /\ projects[KeyOf(h)].status # "generated"

\* C13: timestamps are set once -- over any sequence of updates of one task, once
\* started_at is set no later update changes it, and once completed_at is set no later
\* update or sweep changes it.
C13_TimestampsSetOnce ==
    [][\A t \in TaskIds :
          /\ tasks[t].started_at # NullTime => tasks'[t].started_at = tasks[t].started_at
          /\ tasks[t].completed_at # NullTime =>
                tasks'[t].completed_at = tasks[t].completed_at]_vars

\* C14: sweep idempotence -- cleanup_interrupted_tasks called a second time with no submit,
\* poll or pipeline step in between returns 0 and changes no task row and no project row.
C14_SweepIdempotent ==
    [][phase' = "reswept" =>
          /\ cleaned_count' = 0
          /\ tasks' = tasks
          /\ projects' = projects]_vars

\* the second of two sweeps has returned; the first had failed a task and its project
C14_Witness ==
    /\ phase = "reswept"
    /\ cleaned_count = 0
    /\ \E t \in TaskIds :
         /\ tasks[t].error_message = InterruptedMsg
         /\ projects[tasks[t].project_key].status = "failed"

\* the step on which polling loop l records its claim and starts the pipeline thread
Claims(l) == loop[l].pc = "claim" /\ loop'[l].pc = "top"

\* C15: FIFO claiming -- whenever the polling loop claims a task, that task is queued and
\* no queued task was created earlier.
C15_FifoClaim ==
    [][\A l \in LoopIds : Claims(l) =>
          /\ tasks[loop[l].task].status = "queued"
          /\ \A u \in QueuedIds(tasks) :
                tasks[loop[l].task].created_at <= tasks[u].created_at]_vars

\* a task has just been claimed while a task created later waits in the queue
C15_Witness ==
    \E h \in ThreadIds, u \in TaskIds :
        /\ thr[h].pc = "start"
        /\ tasks[u].status = "queued"
        /\ u # TaskOf(h)
        /\ tasks[TaskOf(h)].created_at < tasks[u].created_at

\* C16: slot release -- every task the polling loop claims is eventually removed from
\* active_tasks, whether its run succeeds or raises; the step that removes it leaves a
\* free slot, so that the loop's slot test passes for the next queued task.
C16_SlotRelease ==
    /\ \A t \in 1..PipelineTasks : (t \in active_tasks) ~> (t \notin active_tasks)
    /\ [][\A h \in ThreadIds :
            (thr[h].pc = "finally" /\ thr'[h].pc = "idle") =>
                /\ TaskOf(h) \notin active_tasks'
                /\ Cardinality(active_tasks') < max_concurrent_tasks]_vars

\* a finished task has left active_tasks and the loop has claimed the next one
C16_Witness ==
    \E t, u \in TaskIds :
        /\ t # u
        /\ tasks[t].status \in TerminalStatuses
        /\ tasks[t].started_at # NullTime
        /\ t \notin active_tasks
        /\ u \in active_tasks

\* C17: daily limit -- for every project and every calendar day at most one task of the
\* project is completed on that day, whatever submits are made.
C17_DailyLimit ==
    \A t, u \in TaskIds :
        (/\ t # u
         /\ tasks[t].project_key = tasks[u].project_key
         /\ tasks[t].status = "completed"
         /\ tasks[u].status = "completed") =>
            DayOf(tasks[t].completed_at) # DayOf(tasks[u].completed_at)

\* task ids a client may ask about: those of the table and one that is unknown
RequestedIds == 1..(ClockTasks + 1)

\* the step on which polling loop l reads the queue and finds a task
Polls(l) == loop[l].pc = "top" /\ loop'[l].pc = "claim"

\* C18: queue overview positions -- the position of a requested task id is -1 exactly
\* when the task is processing, 0 exactly when it is completed, failed or unknown, and
\* for a queued task processing_count + the number of queued tasks created strictly
\* earlier + 1; queued tasks created at different times have different positions, in
\* order of creation, and the task the loop takes next has the smallest position.
C18_QueuePositions ==
    /\ [](\A id \in RequestedIds :
            /\ get_queue_status(tasks, id) = 0 - 1 <=>
                  (id \in TaskIds /\ tasks[id].status = "processing")
            /\ get_queue_status(tasks, id) = 0 <=>
                  (id \notin TaskIds \/ tasks[id].status \in TerminalStatuses)
            /\ (id \in TaskIds /\ tasks[id].status = "queued") =>
                  get_queue_status(tasks, id) =
                      Cardinality({t \in TaskIds : tasks[t].status = "processing"})
                      + Cardinality({t \in TaskIds : /\ tasks[t].status = "queued"
                                                     /\ tasks[t].created_at
                                                          < tasks[id].created_at})
                      + 1)
    /\ [](\A a, b \in QueuedIds(tasks) :
            tasks[a].created_at < tasks[b].created_at =>
                get_queue_status(tasks, a) < get_queue_status(tasks, b))
    /\ [][\A l \in LoopIds : Polls(l) =>
            \A u \in QueuedIds(tasks) :
                get_queue_status(tasks, loop'[l].task) <= get_queue_status(tasks, u)]_vars

\* one task is being processed and the task behind it is told position 2
C18_Witness ==
    \E a, b \in TaskIds :
        /\ get_queue_status(tasks, a) = 0 - 1
        /\ get_queue_status(tasks, b) = 2

\* create_task call c was made for a subject whose project was not generating
Accepted(c) == call[c].pre.status \in {"absent", "not_generated", "generated", "failed"}

\* call c takes a step and the process lives on
CallStep(c) == call'[c] # call[c] /\ phase' # "down"

\* C19: accepted submission -- a create_task call for a subject whose project is absent,
\* not_generated, generated or failed inserts exactly one task row with a fresh id, status
\* queued, progress 0 and the subject's key, sets the project generating with
\* current_task_id = the returned id, and returns with the polling loop running.
C19_AcceptedSubmission ==
    [][\A c \in Callers : (Accepted(c) /\ CallStep(c)) =>
          /\ call[c].pc = "insert" => call'[c].pc = "reselect"
          /\ call[c].pc = "task" =>
                /\ call'[c].pc = "trans"
                /\ call'[c].made \notin TaskIds
                /\ Len(tasks') = Len(tasks) + 1
                /\ \A t \in TaskIds : tasks'[t] = tasks[t]
                /\ tasks'[call'[c].made].status = "queued"
                /\ tasks'[call'[c].made].progress = 0
                /\ tasks'[call'[c].made].project_key = call[c].key
          /\ call[c].pc = "trans" =>
                /\ call'[c].pc = "start"
                /\ projects'[call[c].key].status = "generating"
                /\ projects'[call[c].key].current_task_id = call[c].made
          /\ call[c].pc = "start" =>
                /\ call'[c].pc = "idle"
                /\ ReturnValue(c) = call[c].made
                /\ call[c].made = Len(tasks)
                /\ running'
                /\ \E l \in LoopIds : loop'[l].pc # "off"]_vars

\* a resubmission for a generated project is about to return its new task id
C19_Witness ==
    \E c \in Callers :
        /\ call[c].pc = "start"
        /\ call[c].pre.status = "generated"
        /\ call[c].made = Len(tasks)
        /\ projects[call[c].key].status = "generating"
        /\ projects[call[c].key].current_task_id = call[c].made

\* C20: result and error presence -- in every reachable state a task's result is non-null
\* only if the task is completed and its error_message is non-null only if it is failed.
C20_ResultErrorPresence ==
    \A t \in TaskIds :
        /\ tasks[t].result # NullResult => tasks[t].status = "completed"
        /\ tasks[t].error_message # "NULL" => tasks[t].status = "failed"

\* a failed task with its error next to a completed task with its result
C20_Witness ==
    \E t, u \in TaskIds :
        /\ tasks[t].status = "failed"
        /\ tasks[t].error_message = "error"
        /\ tasks[u].status = "completed"
        /\ tasks[u].result # NullResult

\* C21: exclusive execution -- for any concurrency limit, the task the polling loop claims
\* is still queued and no pipeline thread has been started for it: no task is claimed
\* twice, also when the loop polls again before the thread's first write.
C21_ExclusiveExecution ==
    [][\A l \in LoopIds : Claims(l) =>
          /\ tasks[loop[l].task].status = "queued"
          /\ \A h \in ThreadIds : thr[h].pc # "idle" => TaskOf(h) # loop[l].task]_vars

\* C22: single polling loop -- in every reachable state at most one _worker_loop thread
\* is alive, however start() is reached: from init_task_queue or from create_task calls
\* that read running as False.
C22_SinglePollingLoop ==
    Cardinality({l \in LoopIds : loop[l].pc # "off"}) <= 1

\* C23: sweep before polling -- on every startup, at the step where init_task_queue starts
\* the polling loop no task is queued or processing (such a task could only be one the
\* previous run left behind), whether or not the store operation of the sweep succeeded.
C23_SweepBeforePolling ==
    [][(phase = "swept" /\ phase' = "up") => InterruptedIds(tasks) = {}]_vars

\* C24: in every reachable state a project's current_task_id is non-null exactly when the
\* project's status is generating.
C24_LinkIffGenerating ==
    \A k \in Keys : projects[k].current_task_id # NoTask <=> projects[k].status = "generating"

\* one project linked to its task while another was failed and unlinked by its run
C24_Witness ==
    \E k, j \in Keys :
        /\ projects[k].status = "generating"
        /\ projects[k].current_task_id \in TaskIds
        /\ projects[j].status = "failed"
        /\ projects[j].current_task_id = NoTask
        /\ \E t \in TaskIds : tasks[t].project_key = j /\ tasks[t].error_message = "error"

\* the status changes of a project row that the transition graph allows; the first pair
\* is the creation of the row
ProjectEdges ==
    { << "absent", "not_generated" >>,
      << "not_generated", "generating" >>, << "generated", "generating" >>,
      << "failed", "generating" >>,
      << "generating", "generated" >>, << "generating", "failed" >> }

\* C25: project status transition graph -- in any interleaving of submits, pipeline runs
\* and the sweep, a project's status changes only to generating from not_generated,
\* generated or failed, and from generating to generated or failed; it never returns to
\* not_generated and never moves directly between generated and failed.
C25_ProjectTransitions ==
    [][\A k \in Keys :
          projects'[k].status # projects[k].status =>
              << projects[k].status, projects'[k].status >> \in ProjectEdges]_vars

\* the create_task call that inserted task t has returned
SubmitReturned(t) == \A c \in Callers : call[c].made # t

CompletedOf(k) == {t \in TaskIds : tasks[t].project_key = k /\ tasks[t].status = "completed"}

\* no pipeline run of a task of project k is under way or still to come
Quiescent(k) ==
    /\ phase \in {"up", "stopping"}
    /\ ActiveOf(k) = {}
    /\ \A h \in ThreadIds : thr[h].pc # "idle" => KeyOf(h) # k

\* C27: generation_count starts at 0 and never decreases; it changes only by +1, on the
\* project write of a run whose task is completed; once all pipeline runs of the project
\* have finished it equals the number of the project's completed tasks.
C27_GenerationCount ==
    /\ [](\A k \in Keys :
            /\ projects[k].status = "absent" => projects[k].generation_count = 0
            /\ Quiescent(k) => projects[k].generation_count = Cardinality(CompletedOf(k)))
    /\ [][\A k \in Keys :
            /\ projects'[k].generation_count >= projects[k].generation_count
            /\ projects'[k].generation_count # projects[k].generation_count =>
                  /\ projects'[k].generation_count = projects[k].generation_count + 1
                  /\ \E h \in ThreadIds :
                        /\ thr[h].pc = "project" /\ thr'[h].pc = "finally"
                        /\ KeyOf(h) = k
                        /\ tasks[TaskOf(h)].status = "completed"]_vars

\* C28: get_or_create_wiki_project is idempotent and atomic per subject key -- a call that
\* finds the row returns it and changes nothing; of the calls that found no row, the first
\* INSERT creates the row with status not_generated and every later one fails and leaves
\* the row as it is; the call that inserted returns the row, still not_generated when no
\* submission has gone past it.
C28_GetOrCreate ==
    [][\A c \in Callers : CallStep(c) =>
          /\ (call[c].pc = "idle" /\ call'[c].pc = "task") =>
                /\ projects' = projects
                /\ projects[call'[c].key].status # "absent"
                /\ call'[c].pstatus = projects[call'[c].key].status
                /\ call'[c].ptask = projects[call'[c].key].current_task_id
          /\ (call[c].pc = "idle" /\ call'[c].pc = "insert") =>
                /\ projects' = projects
                /\ projects[call'[c].key].status = "absent"
          /\ call[c].pc = "insert" =>
                IF projects[call[c].key].status = "absent"
                THEN /\ projects' = [projects EXCEPT ![call[c].key] = NewProject]
                     /\ call'[c].pc = "reselect"
                ELSE /\ projects' = projects
                     /\ call'[c].pc = "idle"
                     /\ ReturnValue(c) = SubmitError
          /\ call[c].pc = "reselect" =>
                /\ projects' = projects
                /\ call'[c].pc = "task"
                /\ call'[c].pstatus = projects[call[c].key].status
                /\ call'[c].ptask = projects[call[c].key].current_task_id
                /\ (\A t \in TaskIds : tasks[t].project_key # call[c].key) =>
                      call'[c].pstatus = "not_generated"]_vars

\* two first calls for one subject race: one has inserted the row, the other is about
\* to execute its INSERT
C28_Witness ==
    \E c, d \in Callers :
        /\ call[c].pc = "reselect"
        /\ call[d].pc = "insert"
        /\ call[c].key = call[d].key
        /\ projects[call[c].key] = NewProject

\* the external call pipeline thread h is in, by position, and the checkpoint progress
\* its stage starts with
StageProgress ==
    [fetch |-> 5, extract |-> 20, prepare |-> 40, structure |-> 70, persist |-> 95]

\* the positions a pipeline thread may move to from each position
StageOrder ==
    [idle |-> {"start"}, start |-> {"download"}, download |-> {"fetch"},
     fetch |-> {"extract", "project_failed"}, extract |-> {"prepare", "project_failed"},
     prepare |-> {"structure", "project_failed"},
     structure |-> {"pages", "project_failed"}, pages |-> {"pages", "persist"},
     persist |-> {"complete"}, complete |-> {"project"}, project |-> {"finally"},
     project_failed |-> {"finally"}, finally |-> {"idle"}]

\* C29: stage ordering -- a pipeline run makes its external calls in the order fetch,
\* extract, prepare-retriever, generate-structure, per-page generation, persist-result;
\* while a stage's external call runs the task row already holds status processing and
\* the stage's starting progress (5, 20, 40, 70, 95; 70 to 95 in the page loop); after a
\* stage has raised the run makes no further external call.
C29_StageOrdering ==
    /\ [](\A h \in ThreadIds :
            /\ thr[h].pc \in DOMAIN StageProgress =>
                  /\ tasks[TaskOf(h)].status = "processing"
                  /\ tasks[TaskOf(h)].progress = StageProgress[thr[h].pc]
            /\ thr[h].pc = "pages" =>
                  /\ tasks[TaskOf(h)].status = "processing"
                  /\ tasks[TaskOf(h)].progress \in 70..95
                  /\ Len(thr[h].pages) = thr[h].i)
    /\ [][\A h \in ThreadIds :
            (thr'[h] # thr[h] /\ phase' # "down") =>
                thr'[h].pc \in StageOrder[thr[h].pc]]_vars

\* a run of two pages is in its persist-result call, every checkpoint behind it
C29_Witness ==
    \E h \in ThreadIds :
        /\ thr[h].pc = "persist"
        /\ thr[h].n = 2
        /\ Len(thr[h].pages) = 2
        /\ tasks[TaskOf(h)].progress = 95

\* C30: progress to completion -- while the polling loop runs and the process is not
\* killed, with every external call returning or raising and the loop and the pipeline
\* threads scheduled fairly, every queued task eventually is completed or failed,
\* whatever is queued ahead of it.
C30_ProgressToCompletion ==
    \A t \in 1..QueueTasks :
        (t \in TaskIds /\ tasks[t].status = "queued")
            ~> (t \in TaskIds /\ tasks[t].status \in TerminalStatuses)

\* two tasks of different subjects have both been run to their ends, one of them failed
C30_Witness ==
    \E t, u \in TaskIds :
        /\ tasks[t].project_key # tasks[u].project_key
        /\ tasks[t].status = "failed"
        /\ tasks[t].error_message = "error"
        /\ tasks[u].status = "completed"
        /\ active_tasks = {}

\* stop() has returned and start() has not been called since
Stopped == phase = "stopped" /\ ~running

\* C31: stop semantics -- once stop() has set running to False the polling loop reads no
\* further task from the queue, and once stop() has returned no loop is left and no task
\* is claimed, until start() is called again; tasks queued then stay queued; stop() does
\* not touch a pipeline run under way, which goes on to completed or failed and releases
\* its slot.
C31_StopSemantics ==
    /\ [](Stopped => \A l \in LoopIds : loop[l].pc = "off")
    /\ [][/\ \A l \in LoopIds : Polls(l) => running
          /\ (Stopped /\ ~running') =>
                /\ \A l \in LoopIds : ~Claims(l)
                /\ \A t \in TaskIds : tasks[t].status = "queued" => tasks'[t].status = "queued"
          /\ phase' \in {"stopping", "stopped"} /\ phase' # phase =>
                /\ thr' = thr
                /\ active_tasks' = active_tasks
                /\ tasks' = tasks]_vars
    /\ \A t \in 1..StopTasks :
          (t \in TaskIds /\ tasks[t].status = "processing")
              ~> (t \in TaskIds /\ tasks[t].status \in TerminalStatuses /\ t \notin active_tasks)

\* the pipeline threads that are executing task t
RunnersOf(t) == {h \in ThreadIds : thr[h].pc # "idle" /\ TaskOf(h) = t}

PageCheckpoint(h) == thr[h].pc = "pages" /\ thr'[h].pc = "pages" /\ thr'[h].i = thr[h].i + 1

\* C33: stage-4 page progress -- for a structure of N >= 1 pages the checkpoint written
\* before page i (0 <= i < N) is 70 + floor(25*i/N), lies in [70, 95) and is not below the
\* checkpoint before it; for N = 0 no page checkpoint is written, the stage goes straight
\* on to the stage-5 checkpoint and the task is completed.
C33_PageProgress ==
    /\ [][\A h \in ThreadIds :
            /\ PageCheckpoint(h) =>
                  /\ thr[h].n >= 1
                  /\ thr[h].i \in 0..(thr[h].n - 1)
                  /\ (tasks'[TaskOf(h)].progress - 70) * thr[h].n <= 25 * thr[h].i
                  /\ 25 * thr[h].i < (tasks'[TaskOf(h)].progress - 69) * thr[h].n
                  /\ tasks'[TaskOf(h)].progress >= 70
                  /\ tasks'[TaskOf(h)].progress < 95
                  /\ tasks'[TaskOf(h)].progress >= tasks[TaskOf(h)].progress
                  /\ tasks'[TaskOf(h)].status = "processing"
            /\ (thr[h].pc = "pages" /\ thr[h].n = 0 /\ thr'[h] # thr[h]) =>
                  /\ thr'[h].pc = "persist"
                  /\ tasks'[TaskOf(h)].progress = 95]_vars
    /\ \A t \in 1..PageTasks :
          (\E h \in ThreadIds : thr[h].pc = "pages" /\ thr[h].n = 0 /\ TaskOf(h) = t)
              ~> (t \in TaskIds /\ tasks[t].status = "completed" /\ tasks[t].progress = 100)

\* the checkpoint before the last page of the largest structure has been written, after
\* the first two pages were given the same value
C33_Witness ==
    \E h \in ThreadIds :
        /\ thr[h].pc = "pages"
        /\ thr[h].n = ManyPages
        /\ thr[h].i = thr[h].n
        /\ ManyPages > 25
        /\ tasks[TaskOf(h)].progress = 70 + (25 - 1)

\* the task of the last successful generation of project k
LastCompleted(k) == CHOOSE t \in CompletedOf(k) : \A u \in CompletedOf(k) : u <= t

\* C34: a failed attempt preserves the last success -- a project that was generated before
\* and whose regeneration failed (pipeline failure or sweep) still carries the cached
\* result and the generation_count of its last successful generation; the transition to
\* failed changes only status and current_task_id.
C34_FailedKeepsLastSuccess ==
    /\ [](\A k \in Keys :
            (projects[k].status = "failed" /\ projects[k].generation_count >= 1) =>
                /\ CompletedOf(k) # {}
                /\ projects[k].pages_count = Len(tasks[LastCompleted(k)].result[1])
                /\ projects[k].generation_count = Cardinality(CompletedOf(k)))
    /\ [][\A k \in Keys :
            (projects'[k].status = "failed" /\ projects[k].status # "failed") =>
                /\ projects'[k].pages_count = projects[k].pages_count
                /\ projects'[k].generation_count = projects[k].generation_count
                /\ projects'[k].progress = projects[k].progress]_vars

\* C35: the task is the sole progress source -- progress is recorded only on the task
\* row: no step of the pipeline writes a progress value onto the project row, so the
\* project never carries a progress value of its own that differs from the one it was
\* created with.
C35_TaskSoleProgressSource ==
    /\ [][\A k \in Keys : projects'[k].progress = projects[k].progress]_vars
    /\ [](\A k \in Keys : projects[k].progress = NewProject.progress)

TypeOK ==
    /\ running \in BOOLEAN
    /\ phase \in {"down", "swept", "reswept", "up", "stopping", "stopped"}
    /\ \A t \in TaskIds : tasks[t].status \in ActiveStatuses \cup TerminalStatuses

====
